---- MODULE Spec2Model ----
(***************************************************************************)
(* AppDate: a timezone-aware date value wrapping the dayjs calendar        *)
(* engine.  The repository holds two AppDate modules: the class-based one  *)
(* (src/src/index2.ts: TimezoneManager, DateParser, DateFormatter,         *)
(* WorkingDaysCalculator, AppDate) and the single-class one                *)
(* (src/unnamed/part_000).  The variable impl says which module is loaded. *)
(*                                                                         *)
(* Time is counted in whole hours since 1970-01-01T00:00Z.  A zone is a    *)
(* fixed offset in hours.  Strings that are parsed are sequences of        *)
(* one-character strings; timezone ids are plain strings.                  *)
(***************************************************************************)
EXTENDS Integers, Sequences, FiniteSets, TLC

VARIABLES
    impl,        \* "index2" or "legacy": which AppDate module is loaded
    systemZone,  \* the zone of the host, used by dayjs() and new Date(y, M, d)
    timezone,    \* TimezoneManager.timezone / localTimezone
    now,         \* the clock, in hours since the epoch
    d,           \* the AppDate the last operation returned
    prev,        \* the receiver of the last instance operation
    prevTz,      \* the current timezone before the last operation
    lastOp,      \* the name of the last operation
    arg,         \* the string argument of the last parsing constructor
    tzArg,       \* the argument of the last setTimezone
    numArg,      \* the numeric argument of the last operation (add: value;
                 \* addWorkingDays: twice the number of days)
    unitArg,     \* the unit argument of the last operation
    thrown,      \* the exception the last operation let escape, or "none"
    lastOkTz,    \* the argument of the most recent setTimezone that returned
    pc,          \* "idle", or the working-day traversal that is running
    cur,         \* the traversal's current candidate day
    remaining,   \* addWorkingDays: twice the number of days still to add
    steps,       \* one-day steps the running nextWorkingDay/previousWorkingDay made
    tests,       \* weekday tests evaluated by the running traversal
    calls,       \* nextWorkingDay calls completed by the running addWorkingDays
    depth,       \* nested calls of the running traversal
    nops,        \* AppDate calls made on the held value: the constructor
                 \* that made it, then the instance operations applied
    self,        \* the receiver of the last instance operation, as the
                 \* operation left it
    isNew,       \* the object the last operation returned was constructed by it
    locale,      \* the name of dayjs's global locale
    formatter,   \* which of the two DateFormatter definitions of index2.ts
                 \* is in effect: "first" or "second"
    language,    \* the argument of the last setAppDateLanguage, "-" before
    ret,         \* what the last formatter or predicate call returned
    opts,        \* the options (or the bounds) the last such call was given
    imports      \* the setAppDateLanguage calls made without awaiting them,
                 \* in the order of the calls: the language of each, and
                 \* whether its locale import has completed

vars == << impl, systemZone, timezone, now, d, prev, prevTz, lastOp, arg, tzArg,
           numArg, unitArg, thrown, lastOkTz, pc, cur, remaining, steps, tests,
           calls, depth, nops, self, isNew, locale, formatter, language, ret,
           opts, imports >>

\* the variables only the formatters, the predicates and the language
\* switch write
queryVars == << locale, formatter, language, ret, opts, imports >>

----------------------------------------------------------------------------
(* Bounds of the model *)

MaxTicks == 1
MaxOps == 2
MaxSteps == 4
MaxCalls == 2

----------------------------------------------------------------------------
(* Characters and strings *)

\* the element of a one-element set: Only({ F(x) : x \in { e } }) is F(e)
\* with e evaluated once
Only(S) == CHOOSE x \in S : TRUE

\* the least element of a set of positions, 0 for the empty set
FirstOf(S) == IF S = {} THEN 0 ELSE CHOOSE i \in S : \A j \in S : i <= j

Digits == << "0", "1", "2", "3", "4", "5", "6", "7", "8", "9" >>

IsDigit(c) == c \in { "0", "1", "2", "3", "4", "5", "6", "7", "8", "9" }

DigitVal(c) == (CHOOSE i \in 1 .. 10 : Digits[i] = c) - 1

Pow10(k) ==
    IF k <= 0 THEN 1 ELSE IF k = 1 THEN 10 ELSE IF k = 2 THEN 100
    ELSE IF k = 3 THEN 1000 ELSE 10000

\* the number written by a string of at most four digits
NumVal(s) ==
    IF Len(s) = 2 THEN 10 * DigitVal(s[1]) + DigitVal(s[2])
    ELSE IF Len(s) = 4
    THEN 1000 * DigitVal(s[1]) + 100 * DigitVal(s[2]) + 10 * DigitVal(s[3])
         + DigitVal(s[4])
    ELSE IF Len(s) = 3
    THEN 100 * DigitVal(s[1]) + 10 * DigitVal(s[2]) + DigitVal(s[3])
    ELSE IF Len(s) = 1 THEN DigitVal(s[1]) ELSE 0

\* the decimal digits of n < 100000, padded with zeros to at least w characters
PadStart(n, w) ==
    LET len == IF n < 10 THEN 1 ELSE IF n < 100 THEN 2 ELSE IF n < 1000 THEN 3
               ELSE IF n < 10000 THEN 4 ELSE 5
    IN  [i \in 1 .. (IF w > len THEN w ELSE len) |->
            Digits[((n \div Pow10((IF w > len THEN w ELSE len) - i)) % 10) + 1]]

\* index of the first run of k digits in s starting at or after from, else 0
FindDigits(s, from, k) ==
    FirstOf({ i \in from .. (Len(s) - k + 1) :
                 \A j \in 0 .. (k - 1) : IsDigit(s[i + j]) })

\* index of the first occurrence of v in s, else 0
IndexOf(s, v) ==
    FirstOf({ i \in 1 .. (Len(s) - Len(v) + 1) :
                 SubSeq(s, i, i + Len(v) - 1) = v })

\* String.prototype.replace(v, ''): s without the first occurrence of v
RemoveFirst(s, v) ==
    Only({ IF i = 0 THEN s
           ELSE SubSeq(s, 1, i - 1) \o SubSeq(s, i + Len(v), Len(s)) :
           i \in { IndexOf(s, v) } })

----------------------------------------------------------------------------
(* The calendar of the engine *)

IsLeap(y) == (y % 4 = 0 /\ y % 100 # 0) \/ y % 400 = 0

DaysInMonth(y, m) ==
    IF m = 2 THEN (IF IsLeap(y) THEN 29 ELSE 28)
    ELSE IF m \in {4, 6, 9, 11} THEN 30 ELSE 31

\* days from 1970-01-01 to the civil date y-m-d (proleptic Gregorian):
\* the year counted from March, split into 400-year eras
DaysFromCivil(y, m, dd) ==
    Only({ (yy \div 400) * 146097
           + (yy % 400) * 365 + (yy % 400) \div 4 - (yy % 400) \div 100
           + (153 * ((m + 9) % 12) + 2) \div 5 + dd - 1
           - 719468 :
           yy \in { IF m <= 2 THEN y - 1 ELSE y } })

\* the civil date of the day doy of the year yoe of an era, both counted
\* from March 1
CivilFromYear(era, yoe, doy) ==
    Only({ [year  |-> yoe + era * 400 + (IF mp < 10 THEN 0 ELSE 1),
            month |-> IF mp < 10 THEN mp + 3 ELSE mp - 9,
            day   |-> doy - (153 * mp + 2) \div 5 + 1] :
           mp \in { (5 * doy + 2) \div 153 } })

\* the civil date of the day doe of an era
CivilFromEra(era, doe) ==
    Only({ CivilFromYear(era, yoe, doe - (365 * yoe + yoe \div 4 - yoe \div 100)) :
           yoe \in { (doe - doe \div 1460 + doe \div 36524 - doe \div 146096)
                     \div 365 } })

\* the civil date of day number z
CivilFromDays(z) ==
    Only({ CivilFromEra(zz \div 146097, zz % 146097) : zz \in { z + 719468 } })

\* new Date(y, M, d) / Date.UTC(y, M, d): the day number, with a month index M
\* and a day d that overflow into the following months and years, and a year
\* 0..99 read as 1900 + y
JsDateDays(y, M, dd) ==
    DaysFromCivil((IF y >= 0 /\ y <= 99 THEN 1900 + y ELSE y) + (M \div 12),
                  (M % 12) + 1, 1) + dd - 1

----------------------------------------------------------------------------
(* Zones known to the engine (Intl): a fixed offset in hours each.  Any    *)
(* other id makes the engine throw a RangeError.                           *)

DEFAULT_TIMEZONE == "Europe/Zurich"

Zones == { "Europe/Zurich", "Asia/Tokyo" }

ZoneIds == Zones \cup { "Mars/Phobos" }

Resolvable(zone) == zone \in Zones

ZoneOffset(zone) ==
    IF zone = "Europe/Zurich" THEN 1 ELSE IF zone = "Asia/Tokyo" THEN 9 ELSE 0

----------------------------------------------------------------------------
(* Dayjs instants.  sentinel marks the one module-level INVALID_DATE       *)
(* object; every other invalid instant is an object of its own.  L is the  *)
(* locale of the instance ($L); nothing reads it on an invalid instant,    *)
(* where it is left out ("-").                                             *)

INVALID_DATE ==
    [valid |-> FALSE, t |-> 0, off |-> 0, sentinel |-> TRUE, L |-> "-"]

InvalidInstant ==
    [valid |-> FALSE, t |-> 0, off |-> 0, sentinel |-> FALSE, L |-> "-"]

\* a new instance: it takes the global locale of the moment it is made
Instant(t, off) ==
    [valid |-> TRUE, t |-> t, off |-> off, sentinel |-> FALSE, L |-> locale]

\* an instance made from the instance x (clone, Utils.w): it keeps x's locale
Wrapper(x, t, off) ==
    [valid |-> TRUE, t |-> t, off |-> off, sentinel |-> FALSE, L |-> x.L]

\* the outcome of a call: the value returned, or the exception thrown
Ret(v) == [thrown |-> "none", val |-> v]

Throw(e) == [thrown |-> e, val |-> INVALID_DATE]

\* the local day number and the local civil date of an instant
LocalDay(x) == (x.t + x.off) \div 24

LocalHour(x) == (x.t + x.off) % 24

LocalDate(x) == CivilFromDays(LocalDay(x))

----------------------------------------------------------------------------
(* dayjs customParseFormat: the parser built from a format                 *)

DATE_FORMAT == << "YYYY", "-", "MM", "-", "DD" >>

LOCAL_TIME_FORMAT == << "HH", ":", "mm" >>

UTC_TIME_FORMAT == << "HH", ":", "mm", ":", "ss", "Z" >>

TokenWidth(token) == IF token = "YYYY" THEN 4 ELSE 2

IsFieldToken(token) == token \in { "YYYY", "MM", "DD", "HH", "mm", "ss" }

\* the length of the match of /[+-]\d\d:?(\d\d)?|Z/ that starts at at
OffsetLength(s, at) ==
    IF s[at] = "Z" THEN 1
    ELSE Only({ IF /\ at + 4 + colon <= Len(s)
                   /\ IsDigit(s[at + 3 + colon]) /\ IsDigit(s[at + 4 + colon])
                THEN 5 + colon ELSE 3 + colon :
                colon \in { IF at + 3 <= Len(s) /\ s[at + 3] = ":" THEN 1 ELSE 0 } })

\* /[+-]\d\d:?(\d\d)?|Z/ : the first match in s at or after from, as
\* [at, len], at = 0 when there is none
FindOffset(s, from) ==
    Only({ IF at = 0 THEN [at |-> 0, len |-> 0]
           ELSE [at |-> at, len |-> OffsetLength(s, at)] :
           at \in { FirstOf({ i \in from .. Len(s) :
                        \/ s[i] = "Z"
                        \/ /\ s[i] \in { "+", "-" }
                           /\ i + 2 <= Len(s)
                           /\ IsDigit(s[i + 1]) /\ IsDigit(s[i + 2]) }) } })

\* offsetFromString, in hours: '+01:00' gives -1, '-05:00' gives 5, 'Z' gives 0
OffsetFromString(v) ==
    IF v[1] = "Z" THEN 0
    ELSE IF v[1] = "+" THEN 0 - NumVal(SubSeq(v, 2, 3))
    ELSE NumVal(SubSeq(v, 2, 3))

EmptyTime ==
    [ok |-> TRUE, YYYY |-> 0, MM |-> 0, DD |-> 0, HH |-> 0, mm |-> 0, ss |-> 0,
     hasZone |-> FALSE, zone |-> 0]

\* a field token matched the text v: the field is set and the first
\* occurrence of v is removed from the input
TakeField(token, st, v) ==
    [st EXCEPT !.input = RemoveFirst(st.input, v), !.time[token] = NumVal(v)]

\* the offset token matched the text v
TakeOffset(st, v) ==
    [st EXCEPT !.input = RemoveFirst(st.input, v),
               !.time.hasZone = TRUE, !.time.zone = OffsetFromString(v)]

\* one token of the parser returned by makeParser(format): a field token
\* takes the first match of its pattern in input.slice(start) and removes the
\* first occurrence of the matched text from the input; a literal only
\* advances start; a token without a match throws
ParseToken(token, st) ==
    IF ~st.time.ok THEN st
    ELSE IF IsFieldToken(token)
    THEN Only({ IF at = 0 THEN [st EXCEPT !.time.ok = FALSE]
                ELSE TakeField(token, st,
                               SubSeq(st.input, at, at + TokenWidth(token) - 1)) :
                at \in { FindDigits(st.input, st.start + 1, TokenWidth(token)) } })
    ELSE IF token = "Z"
    THEN Only({ IF m.at = 0 THEN [st EXCEPT !.time.ok = FALSE]
                ELSE TakeOffset(st, SubSeq(st.input, m.at, m.at + m.len - 1)) :
                m \in { FindOffset(st.input, st.start + 1) } })
    ELSE [st EXCEPT !.start = st.start + 1]

NthToken(format, i, st) ==
    IF i > Len(format) THEN st ELSE ParseToken(format[i], st)

\* the parser run over a format of at most six tokens, one token after
\* the other, each on the state the previous one left
RunParser(format, input) ==
    LET S0 == { [input |-> input, start |-> 0, time |-> EmptyTime] }
        S1 == { NthToken(format, 1, st) : st \in S0 }
        S2 == { NthToken(format, 2, st) : st \in S1 }
        S3 == { NthToken(format, 3, st) : st \in S2 }
        S4 == { NthToken(format, 4, st) : st \in S3 }
        S5 == { NthToken(format, 5, st) : st \in S4 }
        S6 == { NthToken(format, 6, st) : st \in S5 }
    IN  Only(S6).time

\* the Date that parseFormattedInput builds from the parsed fields, in hours.
\* Missing fields default to today, the host's current civil date; with a
\* parsed zone or in utc mode the fields are read as UTC, else as host time.
DateOfFields(time, utc, today, sysOff) ==
    JsDateDays(IF time.YYYY # 0 THEN time.YYYY ELSE today.year,
               IF time.YYYY # 0 /\ time.MM = 0 THEN 0
               ELSE IF time.MM > 0 THEN time.MM - 1 ELSE today.month - 1,
               IF time.DD # 0 THEN time.DD
               ELSE IF time.YYYY = 0 /\ time.MM = 0 THEN today.day ELSE 1) * 24
    + time.HH
    + (IF time.hasZone THEN time.zone ELSE IF utc THEN 0 ELSE 0 - sysOff)

\* parseFormattedInput(input, format, utc): the instant in hours, or invalid
ParseFormattedInput(input, format, utc, clock, sysOff) ==
    Only({ IF ~time.ok THEN [valid |-> FALSE, t |-> 0]
           ELSE [valid |-> TRUE, t |-> DateOfFields(time, utc, today, sysOff)] :
           time \in { RunParser(format, input) },
           today \in { CivilFromDays((clock + sysOff) \div 24) } })

\* Dayjs.format('YYYY-MM-DD') of a local day number
FormatDate(day) ==
    Only({ PadStart(c.year, 4) \o << "-" >> \o PadStart(c.month, 2) \o << "-" >>
           \o PadStart(c.day, 2) :
           c \in { CivilFromDays(day) } })

\* dayjs(date, 'YYYY-MM-DD', true).isValid(): the strict parse keeps the
\* parsed date only when formatting it gives back the input
StrictDateValid(date, clock, sysOff) ==
    \E p \in { ParseFormattedInput(date, DATE_FORMAT, FALSE, clock, sysOff) } :
        p.valid /\ date = FormatDate((p.t + sysOff) \div 24)

----------------------------------------------------------------------------
(* The engine's entry points used by the two modules                       *)

SysOff == ZoneOffset(systemZone)

\* the marker of an omitted string argument
NoArgument == << "undefined" >>

\* the inputs on which the engine's ISO pattern is modelled: NNNN-NN-NN
IsoDateShape(s) ==
    /\ Len(s) = 10
    /\ \A i \in { 1, 2, 3, 4, 6, 7, 9, 10 } : IsDigit(s[i])
    /\ s[5] = "-" /\ s[8] = "-"

\* Date.UTC(y, m - 1, d || 1) of the ISO fields, which overflows
UtcOfFields(y, m, dd) ==
    Instant(JsDateDays(y, m - 1, IF dd = 0 THEN 1 ELSE dd) * 24, 0)

\* dayjs.utc(date): the current instant when date is omitted; an ISO date
\* is read through Date.UTC; any other string of the model's inputs gives an
\* invalid instant.  Never throws.
DayjsUtc(date) ==
    IF date = NoArgument THEN Instant(now, 0)
    ELSE IF IsoDateShape(date)
    THEN UtcOfFields(NumVal(SubSeq(date, 1, 4)), NumVal(SubSeq(date, 6, 7)),
                     NumVal(SubSeq(date, 9, 10)))
    ELSE InvalidInstant

\* dayjs.utc(input, format): a non-strict parse in UTC.  Never throws.
DayjsUtcFormat(input, format) ==
    Only({ IF p.valid THEN Instant(p.t, 0) ELSE InvalidInstant :
           p \in { ParseFormattedInput(input, format, TRUE, now, SysOff) } })

\* dayjs().tz(zone), dayjs.tz(aDayjs, zone): the same instant shown in zone.
\* Throws a RangeError when Intl cannot resolve zone.
DayjsTz(date, zone) ==
    IF ~Resolvable(zone) THEN Throw("RangeError")
    ELSE Only({ IF ~x.valid THEN Ret(InvalidInstant)
                ELSE Ret(Wrapper(x, x.t, ZoneOffset(zone))) :
                x \in { date } })

\* the tail of dayjs.tz(aString, ...): the parsed wall-clock time is taken as
\* local time of zone; an unresolvable zone or an unparsed input throws
\* (dayjs issue 1637: Intl rejects the NaN timestamp)
TzFromLocalTs(parsed, zone) ==
    IF ~Resolvable(zone) THEN Throw("RangeError")
    ELSE Only({ IF ~p.valid THEN Throw("RangeError")
                ELSE Ret(Instant(p.t - ZoneOffset(zone), ZoneOffset(zone))) :
                p \in { parsed } })

\* dayjs.tz(aString, zone)
DayjsTzString(input, zone) == TzFromLocalTs(DayjsUtc(input), zone)

\* dayjs.tz(aString, format, zone)
DayjsTzFormat(input, format, zone) ==
    TzFromLocalTs(DayjsUtcFormat(input, format), zone)

\* try { r } catch { fallback }
TryCatch(r, fallback) ==
    Only({ IF x.thrown = "none" THEN x ELSE Ret(fallback) : x \in { r } })

UnitHours(unit) == IF unit = "day" THEN 24 ELSE 1

\* an add that computes on an invalid instant's timestamp as if it were 0
DayjsAdd_IgnoresNaN(x, value, unit) ==
    Instant(x.t + value * UnitHours(unit), x.off)

\* Dayjs.add(value, unit) for the units hour and day; NaN stays NaN
DayjsAdd(x, value, unit) ==
    IF ~x.valid THEN InvalidInstant
    ELSE Wrapper(x, x.t + value * UnitHours(unit), x.off)

DayjsSubtract(x, value, unit) == DayjsAdd(x, 0 - value, unit)

\* Dayjs.startOf(unit) for the units day and month
DayjsStartOf(x, unit) ==
    IF ~x.valid THEN InvalidInstant
    ELSE IF unit = "month"
    THEN Only({ Wrapper(x, DaysFromCivil(c.year, c.month, 1) * 24 - x.off,
                        x.off) :
                c \in { LocalDate(x) } })
    ELSE Wrapper(x, LocalDay(x) * 24 - x.off, x.off)

\* Dayjs.endOf(unit) for the units day and month: the last hour of the unit
DayjsEndOf(x, unit) ==
    IF ~x.valid THEN InvalidInstant
    ELSE IF unit = "month"
    THEN Only({ Wrapper(x, DaysFromCivil(c.year, c.month,
                                         DaysInMonth(c.year, c.month)) * 24
                           + 23 - x.off, x.off) :
                c \in { LocalDate(x) } })
    ELSE Wrapper(x, LocalDay(x) * 24 + 23 - x.off, x.off)

\* Dayjs.day(): Sunday = 0 ... Saturday = 6 in the instant's own offset;
\* NaN (written -1) for an invalid instant.  1970-01-01 was a Thursday.
DayjsDay(x) == IF ~x.valid THEN 0 - 1 ELSE (LocalDay(x) + 4) % 7

\* Dayjs.isBefore(that) and isAfter(that) without a unit compare the epoch
\* values; a comparison with NaN is false
DayjsIsBefore(x, that) == x.valid /\ that.valid /\ x.t < that.t

DayjsIsAfter(x, that) == x.valid /\ that.valid /\ that.t < x.t

\* Dayjs.isSame(that) without a unit: this <= that && that <= this on the
\* epoch values; false with NaN on either side
DayjsIsSame(x, that) == x.valid /\ that.valid /\ x.t = that.t

\* the isBetween plugin, i the inclusivity: '(' and ')' exclude a bound;
\* the second disjunct serves bounds given in reverse order
DayjsIsBetween(x, a, b, i) ==
    \/ /\ IF i[1] = "(" THEN DayjsIsAfter(x, a) ELSE ~DayjsIsBefore(x, a)
       /\ IF i[2] = ")" THEN DayjsIsBefore(x, b) ELSE ~DayjsIsAfter(x, b)
    \/ /\ IF i[1] = "(" THEN DayjsIsBefore(x, a) ELSE ~DayjsIsAfter(x, a)
       /\ IF i[2] = ")" THEN DayjsIsAfter(x, b) ELSE ~DayjsIsBefore(x, b)

----------------------------------------------------------------------------
(* TimezoneManager (index2) and localTimezone (legacy)                     *)

GetTimezone == timezone

\* try { dayjs().tz(timezone); return true } catch { return false }
IsValidTimezone(zone) == DayjsTz(Instant(now, SysOff), zone).thrown = "none"

\* a setTimezone that assigns before it validates
SetTimezoneOutcome_AssignsFirst(newTimezone) ==
    IF impl = "index2" /\ ~IsValidTimezone(newTimezone)
    THEN [thrown |-> "Error: Invalid timezone", timezone |-> newTimezone]
    ELSE [thrown |-> "none", timezone |-> newTimezone]

\* setTimezone(newTimezone): the exception that escapes and the current
\* timezone afterwards.  The legacy module assigns without any validation.
SetTimezoneOutcome(newTimezone) ==
    IF impl = "index2" /\ ~IsValidTimezone(newTimezone)
    THEN [thrown |-> "Error: Invalid timezone", timezone |-> timezone]
    ELSE [thrown |-> "none", timezone |-> newTimezone]

----------------------------------------------------------------------------
(* DateParser (index2)                                                     *)

\* if (!date) return false; return dayjs(date, 'YYYY-MM-DD', true).isValid()
IsValidDateString(date) ==
    date # << >> /\ StrictDateValid(date, now, SysOff)

DateParser_fromDateString(date) ==
    IF ~IsValidDateString(date) THEN Ret(INVALID_DATE)
    ELSE DayjsTzString(date, GetTimezone)

DateParser_fromLocalTime(time) ==
    TryCatch(DayjsTzFormat(time, LOCAL_TIME_FORMAT, GetTimezone), INVALID_DATE)

DateParser_fromUtcString(date) == Ret(DayjsUtc(date))

DateParser_fromUtcTime(time) == Ret(DayjsUtcFormat(time, UTC_TIME_FORMAT))

----------------------------------------------------------------------------
(* AppDate values: the wrapped instant and, in the legacy module, the      *)
(* timezone field set by the constructor (index2 has a getter instead)     *)

NoField == "(getter)"

\* index2: private constructor(dayjsDate)
NewAppDate(dayjsDate) == [dayjsDate |-> dayjsDate, timezone |-> NoField]

\* an engine outcome wrapped by the index2 constructor
Wrapped(r) ==
    Only({ [thrown |-> x.thrown, val |-> NewAppDate(x.val)] : x \in { r } })

\* legacy isDateString(date)
IsDateString(date) ==
    date # << >> /\ StrictDateValid(date, now, SysOff)

\* legacy constructor(timezone, date: Dayjs): dayjs.tz inside try/catch
LegacyNew(zone, date) ==
    [dayjsDate |-> TryCatch(DayjsTz(date, zone), INVALID_DATE).val,
     timezone |-> zone]

\* legacy constructor(timezone, date: string): a string that is no date
\* string throws inside the try and is caught like an engine failure
LegacyNewString(zone, date) ==
    [dayjsDate |-> TryCatch(IF ~IsDateString(date) THEN Throw("Error")
                            ELSE DayjsTzString(date, zone),
                            INVALID_DATE).val,
     timezone |-> zone]

\* legacy constructor(timezone, '', { invalid: true })
LegacyNewInvalid(zone) == [dayjsDate |-> INVALID_DATE, timezone |-> zone]

IsValid(x) == x.dayjsDate.valid

\* AppDate.timezone: index2 reads the manager at the time of the call
TimezoneOf(x) == IF impl = "index2" THEN GetTimezone ELSE x.timezone

AppDate_invalid ==
    IF impl = "index2" THEN NewAppDate(INVALID_DATE)
    ELSE LegacyNewInvalid(timezone)

AppDate_now ==
    IF impl = "index2" THEN NewAppDate(Instant(now, SysOff))
    ELSE LegacyNew(timezone, Instant(now, SysOff))

\* the static parsing constructors: [thrown, val]
AppDate_fromDateString(date) ==
    IF impl = "index2" THEN Wrapped(DateParser_fromDateString(date))
    ELSE Ret(LegacyNewString(timezone, date))

AppDate_fromLocalTime(time) ==
    IF impl = "index2" THEN Wrapped(DateParser_fromLocalTime(time))
    ELSE TryCatch(Only({ [thrown |-> r.thrown,
                          val |-> LegacyNew(timezone, r.val)] :
                         r \in { DayjsTzFormat(time, LOCAL_TIME_FORMAT, timezone) } }),
                  AppDate_invalid)

AppDate_fromUtcString(date) ==
    IF impl = "index2" THEN Wrapped(DateParser_fromUtcString(date))
    ELSE Ret(LegacyNew(timezone, DayjsUtc(date)))

AppDate_fromUtcTime(time) ==
    IF impl = "index2" THEN Wrapped(DateParser_fromUtcTime(time))
    ELSE Ret(LegacyNew(timezone, DayjsUtcFormat(time, UTC_TIME_FORMAT)))

\* AppDate.minDate() and maxDate(), constructed at the time of the call
AppDate_minDate ==
    AppDate_fromDateString(<< "1", "9", "0", "0", "-", "0", "1", "-", "0", "1" >>).val

AppDate_maxDate ==
    AppDate_fromDateString(<< "2", "2", "0", "0", "-", "1", "2", "-", "3", "1" >>).val

\* the value a derived instant is wrapped into: the legacy module passes the
\* current localTimezone, not the receiver's, to its constructor
Derived(dayjsDate) ==
    IF impl = "index2" THEN NewAppDate(dayjsDate)
    ELSE LegacyNew(timezone, dayjsDate)

AppDate_add(x, value, unit) == Derived(DayjsAdd(x.dayjsDate, value, unit))

AppDate_subtract(x, value, unit) ==
    Derived(DayjsSubtract(x.dayjsDate, value, unit))

AppDate_startOf(x, unit) == Derived(DayjsStartOf(x.dayjsDate, unit))

AppDate_endOf(x, unit) == Derived(DayjsEndOf(x.dayjsDate, unit))

\* legacy: isBetween(from = AppDate.minDate(), to = AppDate.maxDate(), unit,
\* inclusivity), the unit left out; inclusivity ?? '[)'
AppDate_isBetween(x, from, to, inclusivity) ==
    DayjsIsBetween(x.dayjsDate,
                   (IF from = NoArgument THEN AppDate_minDate
                    ELSE AppDate_fromDateString(from).val).dayjsDate,
                   (IF to = NoArgument THEN AppDate_maxDate
                    ELSE AppDate_fromDateString(to).val).dayjsDate,
                   IF inclusivity = NoArgument THEN << "[", ")" >> ELSE inclusivity)

\* legacy: tomorrow() { return this.add(1, 'day') }
AppDate_tomorrow(x) == AppDate_add(x, 1, "day")

\* isBefore(other), isSame(other), isAfter(other), the unit left out
AppDate_isBefore(x, other) == DayjsIsBefore(x.dayjsDate, other.dayjsDate)

AppDate_isSame(x, other) == DayjsIsSame(x.dayjsDate, other.dayjsDate)

AppDate_isAfter(x, other) == DayjsIsAfter(x.dayjsDate, other.dayjsDate)

\* legacy: this.dayjsDate.endOf('d').isSame(dayjs().endOf('d')); dayjs() is
\* the current instant in the zone of the host
AppDate_isToday(x) ==
    DayjsIsSame(DayjsEndOf(x.dayjsDate, "day"),
                DayjsEndOf(Instant(now, SysOff), "day"))

\* a calendar engine whose operations work in place, on the receiver
DayjsReceiverAfter_InPlace(x, result) == result

\* the receiver of a Dayjs operation after it: every operation of the engine
\* works on a clone and leaves the receiver as it was
DayjsReceiverAfter(x, result) == x

\* the receiver of an AppDate operation that returned result: its fields are
\* readonly and no method assigns them, so only the engine could change it
ReceiverAfter(x, result) ==
    [x EXCEPT !.dayjsDate = DayjsReceiverAfter(x.dayjsDate, result.dayjsDate)]

----------------------------------------------------------------------------
(* WorkingDaysCalculator (index2) and the legacy working-day methods       *)

WORKING_DAYS == { 1, 2, 3, 4, 5 }

IsWorkingDay(x) == DayjsDay(x.dayjsDate) \in WORKING_DAYS

\* a guard that is off by one: one day is not added either
ReturnsReceiver_OffByOne(days2) == days2 <= 2 \/ days2 % 2 # 0

\* a guard that lets zero days through
ReturnsReceiver_ZeroProceeds(days2) == days2 < 0 \/ days2 % 2 # 0

\* if (days <= 0 || !Number.isInteger(days)) return this; days2 is twice
\* the argument, so that 3 stands for 1.5
ReturnsReceiver(days2) == days2 <= 0 \/ days2 % 2 # 0

\* nextWorkingDay() as a function: the loop (index2) or the nested calls
\* (legacy) from the candidate next, for at most fuel further one-day steps
RECURSIVE FirstWorkingDay(_, _)
FirstWorkingDay(next, fuel) ==
    Only({ IF IsWorkingDay(x) \/ fuel = 0 THEN x
           ELSE FirstWorkingDay(AppDate_add(x, 1, "day"), fuel - 1) :
           x \in { next } })

WorkingDaysCalculator_nextWorkingDay(x) ==
    FirstWorkingDay(AppDate_add(x, 1, "day"), MaxSteps - 1)

----------------------------------------------------------------------------
(* Locales.  A formatted string is a sequence of pieces: single characters *)
(* and whole words of a locale table.  Characters outside ASCII are        *)
(* written as their \u escapes.                                            *)

\* the locale tables the two modules load: dayjs/locale/en, de-ch and fr-ch.
\* weekdays and weekdaysMin start on Sunday; en has no weekdaysMin and the
\* engine takes the first two letters of the full name instead
LocaleTable(name) ==
    IF name = "de-ch"
    THEN [weekdays |-> << "Sonntag", "Montag", "Dienstag", "Mittwoch",
                          "Donnerstag", "Freitag", "Samstag" >>,
          weekdaysMin |-> << "So", "Mo", "Di", "Mi", "Do", "Fr", "Sa" >>,
          L |-> << "DD", ".", "MM", ".", "YYYY" >>]
    ELSE IF name = "fr-ch"
    THEN [weekdays |-> << "dimanche", "lundi", "mardi", "mercredi", "jeudi",
                          "vendredi", "samedi" >>,
          weekdaysMin |-> << "di", "lu", "ma", "me", "je", "ve", "sa" >>,
          L |-> << "DD", ".", "MM", ".", "YYYY" >>]
    ELSE [weekdays |-> << "Sunday", "Monday", "Tuesday", "Wednesday",
                          "Thursday", "Friday", "Saturday" >>,
          weekdaysMin |-> << "Su", "Mo", "Tu", "We", "Th", "Fr", "Sa" >>,
          L |-> << "MM", "/", "DD", "/", "YYYY" >>]

\* src/src/sr-ijekavian.ts: the table of the locale sr-ije.  No module under
\* src/ imports it.
Locale_sr_ije ==
    [weekdays |-> << "Nedjelja", "Ponedjeljak", "Utorak", "Srijeda",
                     "\\u010Cetvrtak", "Petak", "Subota" >>,
     weekdaysMin |-> << "ne", "po", "ut", "sr", "\\u010De", "pe", "su" >>,
     L |-> << "DD", ".", "MM", ".", "YYYY" >>]

\* the global locale once the module is loaded: dayjs starts with en, and
\* import 'dayjs/locale/de' only registers de; the legacy module awaits
\* setAppDateLanguage('de') while it loads
LocaleAtLoad == IF impl = "legacy" THEN "de-ch" ELSE "en"

\* setAppDateLanguage(lang), awaited: the locale dayjs.locale(...) is given
LocaleFor(lang) ==
    IF lang = "de" THEN "de-ch" ELSE IF lang = "fr" THEN "fr-ch" ELSE "en"

----------------------------------------------------------------------------
(* Dayjs.format                                                            *)

\* Dayjs.utc(): the same instant at offset 0
DayjsToUtc(x) == IF ~x.valid THEN InvalidInstant ELSE Wrapper(x, x.t, 0)

\* one token of a format template rendered for a valid instant; the model's
\* instants are whole hours, so minutes and seconds are 00
DayjsFormatToken(x, token) ==
    IF token = "YYYY" THEN PadStart(LocalDate(x).year, 4)
    ELSE IF token = "MM" THEN PadStart(LocalDate(x).month, 2)
    ELSE IF token = "DD" THEN PadStart(LocalDate(x).day, 2)
    ELSE IF token = "HH" THEN PadStart(LocalHour(x), 2)
    ELSE IF token \in { "mm", "ss" } THEN << "0", "0" >>
    ELSE IF token = "Z"
    THEN << IF x.off < 0 THEN "-" ELSE "+" >>
         \o PadStart(IF x.off < 0 THEN 0 - x.off ELSE x.off, 2)
         \o << ":", "0", "0" >>
    ELSE IF token = "dd"
    THEN << LocaleTable(x.L).weekdaysMin[DayjsDay(x) + 1] >>
    ELSE IF token = "dddd"
    THEN << LocaleTable(x.L).weekdays[DayjsDay(x) + 1] >>
    ELSE IF token = "[Z]" THEN << "Z" >>
    ELSE << token >>

\* the tokens of template from the i-th on, rendered one after the other
RECURSIVE DayjsFormatFrom(_, _, _)
DayjsFormatFrom(x, template, i) ==
    IF i > Len(template) THEN << >>
    ELSE DayjsFormatToken(x, template[i]) \o DayjsFormatFrom(x, template, i + 1)

\* Dayjs.format(template) with the localizedFormat plugin: an invalid instant
\* gives locale.invalidDate || 'Invalid Date', and no loaded locale sets
\* invalidDate; L is replaced by the pattern of the instance's locale first
DayjsFormat(x, template) ==
    IF ~x.valid THEN << "Invalid Date" >>
    ELSE IF template = << "L" >>
    THEN DayjsFormatFrom(x, LocaleTable(x.L).L, 1)
    ELSE DayjsFormatFrom(x, template, 1)

----------------------------------------------------------------------------
(* DateFormatter (index2, both definitions) and the legacy formatters      *)

\* the options argument when the call gives none
NoOptions == [given |-> FALSE, includeDayOfWeek |-> "undefined"]

\* { includeDayOfWeek: b }
IncludeDayOfWeek(b) == [given |-> TRUE, includeDayOfWeek |-> b]

GetLocalizedInvalidDate ==
    IF locale \in { "de", "de-ch", "de-at" } THEN << "Ung\\u00FCltiges Datum" >>
    ELSE IF locale \in { "fr", "fr-ch" } THEN << "Date invalide" >>
    ELSE << "Invalid Date" >>

\* what the formatter itself returns for an invalid instant: the first
\* definition of index2.ts asks the locale, the second is fixed
InvalidDateString ==
    IF formatter = "first" THEN GetLocalizedInvalidDate ELSE << "Invalid Date" >>

\* a formatter that never applies its default
OptionsOrDefault_NoDefault(options, default) == options

\* the options a formatter works with.  index2: the default parameter value
\* stands in for an omitted argument only; legacy: the destructuring default
\* stands in for a missing includeDayOfWeek as well
OptionsOrDefault(options, default) ==
    IF impl = "legacy"
    THEN IF options.includeDayOfWeek = "undefined" THEN IncludeDayOfWeek(default)
         ELSE options
    ELSE IF ~options.given THEN default ELSE options

\* DateFormatter.safeFormat(template); the legacy module formats unguarded
SafeFormat(x, template) ==
    IF impl # "legacy" /\ ~x.valid THEN InvalidDateString
    ELSE DayjsFormat(x, template)

ToLocalTime(x) == SafeFormat(x.dayjsDate, LOCAL_TIME_FORMAT)

ToUtcTime(x) ==
    IF impl # "legacy" /\ ~x.dayjsDate.valid THEN InvalidDateString
    ELSE DayjsFormat(DayjsToUtc(x.dayjsDate), UTC_TIME_FORMAT)

ToDateString(x) == SafeFormat(x.dayjsDate, DATE_FORMAT)

\* format('dd, ') + rest when includeDayOfWeek is truthy, else rest
WithDayOfWeek(x, options, rest) ==
    IF options.includeDayOfWeek = "true"
    THEN DayjsFormat(x.dayjsDate, << "dd", ", " >>) \o rest
    ELSE rest

ToLocalizedDateString(x, options) ==
    WithDayOfWeek(x, OptionsOrDefault(options,
                                      IF impl = "legacy" THEN "false" ELSE NoOptions),
                  DayjsFormat(x.dayjsDate, << "L" >>))

FormatShort(x, options) ==
    WithDayOfWeek(x, OptionsOrDefault(options,
                                      IF impl = "legacy" THEN "true"
                                      ELSE IncludeDayOfWeek("true")),
                  DayjsFormat(x.dayjsDate, << "DD", ".", "MM", "." >>))

FormatDateTime(x, options) ==
    ToLocalizedDateString(x, OptionsOrDefault(options,
                                              IF impl = "legacy" THEN "true"
                                              ELSE IncludeDayOfWeek("true")))
    \o << ", " >> \o ToLocalTime(x)

\* AppDate.format(template)
Format(x, template) == DayjsFormat(x.dayjsDate, template)

----------------------------------------------------------------------------
(* Relative time and epoch numbers.  toRelative, toEpochMillis and         *)
(* fromEpochMillis are called by src/src/index.test.ts and src/demo.ts;    *)
(* their module is not among the sources, and they are written here as     *)
(* the specification describes them.                                       *)

\* the relativeTime phrases of a locale table: the future and past wrappers
\* around %s, and the phrase of each unit, %d at the front of the plural ones
RelativeTimeTable(name) ==
    IF name = "de-ch"
    THEN [future |-> << "in ", "" >>, past |-> << "vor ", "" >>,
          s |-> "ein paar Sekunden", h |-> "einer Stunde", hh |-> " Stunden",
          d |-> "einem Tag", dd |-> " Tagen", M |-> "einem Monat",
          MM |-> " Monaten", y |-> "einem Jahr", yy |-> " Jahren"]
    ELSE IF name = "fr-ch"
    THEN [future |-> << "dans ", "" >>, past |-> << "il y a ", "" >>,
          s |-> "quelques secondes", h |-> "une heure", hh |-> " heures",
          d |-> "un jour", dd |-> " jours", M |-> "un mois", MM |-> " mois",
          y |-> "un an", yy |-> " ans"]
    ELSE [future |-> << "in ", "" >>, past |-> << "", " ago" >>,
          s |-> "a few seconds", h |-> "an hour", hh |-> " hours",
          d |-> "a day", dd |-> " days", M |-> "a month", MM |-> " months",
          y |-> "a year", yy |-> " years"]

\* an option of toRelative that is not specified
Unspecified == 0 - 1

Abs(n) == IF n < 0 THEN 0 - n ELSE n

\* the signed difference between the value and now, in hours and in whole
\* days (negative: past)
DiffHours(x) == x.dayjsDate.t - now

DiffDays(x) ==
    IF DiffHours(x) < 0 THEN 0 - (Abs(DiffHours(x)) \div 24)
    ELSE DiffHours(x) \div 24

\* the coarsest applicable unit for a distance of h hours and the rounded
\* magnitude in it, by the engine's thresholds: up to 21 hours, up to 25
\* days, up to 10 months (of 30 days), years.  Less than an hour is a few
\* seconds, the model's instants being whole hours.
RelativeUnit(h) ==
    LET days == (h + 12) \div 24
        months == (days + 15) \div 30
    IN  IF h = 0 THEN [one |-> "s", many |-> "s", magnitude |-> 0]
        ELSE IF h <= 21 THEN [one |-> "h", many |-> "hh", magnitude |-> h]
        ELSE IF days <= 25 THEN [one |-> "d", many |-> "dd", magnitude |-> days]
        ELSE IF months <= 10
        THEN [one |-> "M", many |-> "MM", magnitude |-> months]
        ELSE [one |-> "y", many |-> "yy", magnitude |-> (months + 6) \div 12]

\* a phrase inside the future or the past wrapper
RelativeWrap(wrapper, phrase) ==
    (IF wrapper[1] = "" THEN << >> ELSE << wrapper[1] >>) \o phrase
    \o (IF wrapper[2] = "" THEN << >> ELSE << wrapper[2] >>)

\* a fallback that sets in at the threshold
FallsBack_AtThreshold(x, o) ==
    o.fallbackAfterDays # Unspecified /\ Abs(DiffDays(x)) >= o.fallbackAfterDays

\* abs(diff) > fallbackAfterDays, fallbackAfterDays unbounded unless specified
FallsBack(x, o) ==
    o.fallbackAfterDays # Unspecified /\ Abs(DiffDays(x)) > o.fallbackAfterDays

\* a cap that a magnitude equal to it reaches
IsCapped_AtCap(o, magnitude) == o.cap # Unspecified /\ magnitude >= o.cap

\* the magnitude in the chosen unit exceeds cap, cap unbounded unless
\* specified
IsCapped(o, magnitude) == o.cap # Unspecified /\ magnitude > o.cap

\* toRelative(opts), opts = { cap, fallbackAfterDays, fallback }; fallback is
\* a template t standing for (d) => d.format(t)
ToRelative(x, o) ==
    IF ~IsValid(x) THEN ToDateString(x)
    ELSE IF FallsBack(x, o)
    THEN IF o.fallback = NoArgument THEN ToLocalizedDateString(x, NoOptions)
         ELSE Format(x, o.fallback)
    ELSE LET u == RelativeUnit(Abs(DiffHours(x)))
             table == RelativeTimeTable(x.dayjsDate.L)
             phrase == IF IsCapped(o, u.magnitude)
                       THEN PadStart(o.cap, 1) \o << "+", table[u.many] >>
                       ELSE IF u.magnitude <= 1 THEN << table[u.one] >>
                       ELSE PadStart(u.magnitude, 1) \o << table[u.many] >>
         IN  RelativeWrap(IF DiffHours(x) > 0 THEN table.future ELSE table.past,
                          phrase)

\* toEpochMillis(): the instant as a number (hours in the model)
AppDate_toEpochMillis(x) == x.dayjsDate.t

\* fromEpochMillis(n): the instant n, made in UTC and projected into the
\* current timezone
AppDate_fromEpochMillis(n) ==
    IF impl = "index2"
    THEN NewAppDate(TryCatch(DayjsTz(Instant(n, 0), GetTimezone), INVALID_DATE).val)
    ELSE LegacyNew(timezone, Instant(n, 0))

----------------------------------------------------------------------------
(* Inputs                                                                  *)

Impls == { "index2", "legacy" }

SystemZones == { "UTC", "Asia/Tokyo" }

\* Friday 2024-01-12, 22:00 UTC
NowStart == DaysFromCivil(2024, 1, 12) * 24 + 22

DateStr(y, m, dd) ==
    PadStart(y, 4) \o << "-" >> \o PadStart(m, 2) \o << "-" >> \o PadStart(dd, 2)

TimeStr(h, m) == PadStart(h, 2) \o << ":" >> \o PadStart(m, 2)

\* the reference week Monday 2024-01-08 .. Sunday 2024-01-14, a leap day,
\* and strings that are no dates
DateInputs ==
    { DateStr(2024, 1, dd) : dd \in 8 .. 14 } \cup { DateStr(2020, 88, 24), << >> }

\* every combination of year, month and day fields, with further shapes:
\* another separator, a trailing character, a leading character, short fields
ParseInputs ==
    { DateStr(y, m, dd) : y \in { 50, 1900, 2000, 2023, 2024 },
                          m \in { 0, 1, 2, 4, 12, 13, 88 },
                          dd \in { 0, 1, 28, 29, 30, 31, 32, 44 } }
    \cup { DateStr(2020, 88, 500), DateStr(2020, 10, 24) \o << "x" >>,
           << "x" >> \o DateStr(2020, 10, 24),
           PadStart(2020, 4) \o << "/" >> \o PadStart(10, 2) \o << "/" >>
              \o PadStart(24, 2),
           PadStart(2020, 4) \o << "-" >> \o PadStart(1, 1) \o << "-" >>
              \o PadStart(5, 1),
           PadStart(202, 3) \o << "-" >> \o PadStart(10, 2) \o << "-" >>
              \o PadStart(24, 2),
           PadStart(20201, 5) \o << "-" >> \o PadStart(10, 2) \o << "-" >>
              \o PadStart(24, 2),
           << >> }

LocalTimeInputs ==
    { TimeStr(11, 12), TimeStr(99, 99), << "1", ":", "5" >>, << >> }

UtcStringInputs ==
    { NoArgument, DateStr(2024, 6, 15), << "x" >> }

PlusZero == << "+", "0", "0", ":", "0", "0" >>

UtcTimeInputs ==
    { TimeStr(14, 30) \o << ":", "0", "0" >> \o PlusZero,
      TimeStr(23, 0) \o << ":", "0", "0", "Z" >>,
      TimeStr(14, 30) \o << ":", "0", "0" >>, << >> }

AddValues == { 1, 0 - 1 }

AddUnits == { "day", "hour" }

OfUnits == { "day", "month" }

\* twice the argument of addWorkingDays: -3, 0, 1, 1.5 and 2 days
Days2Inputs == { 0 - 6, 0, 2, 3, 4 }

\* the arguments setAppDateLanguage is called with: its own three, and the
\* two of the tests and the demonstration script
Languages == { "de", "fr", "en", "sr", "sr-ije" }

\* no argument, {}, { includeDayOfWeek: true }, { includeDayOfWeek: false }
OptionInputs ==
    { NoOptions, IncludeDayOfWeek("undefined"), IncludeDayOfWeek("true"),
      IncludeDayOfWeek("false") }

\* the ends of the supported range, with the day before and the day after
RangeDateInputs ==
    { DateStr(1899, 12, 31), DateStr(1900, 1, 1), DateStr(2200, 12, 30),
      DateStr(2200, 12, 31) }

\* bounds of isBetween: left out, or a day of the reference week
BoundInputs == { NoArgument, DateStr(2024, 1, 8), DateStr(2024, 1, 10) }

\* days added to or subtracted from now() before toRelative is called
RelativeDayInputs == { 0, 5, 9, 10, 14, 15, 20, 40 }

\* options of toRelative: cap 9 or none, fallbackAfterDays 14 or none, the
\* fallback (d) => d.format('DD.MM.') or none
RelativeOptionInputs ==
    { [cap |-> c, fallbackAfterDays |-> f, fallback |-> fb] :
        c \in { Unspecified, 9 }, f \in { Unspecified, 14 },
        fb \in { NoArgument, << "DD", ".", "MM", "." >> } }

\* templates given to format(): weekday names, the short date, and the
\* default 'YYYY-MM-DDTHH:mm:ssZ[Z]'
TemplateInputs ==
    { << "dddd" >>, << "dd" >>, << "DD", ".", "MM", "." >>,
      << "YYYY", "-", "MM", "-", "DD", "T", "HH", ":", "mm", ":", "ss", "Z",
         "[Z]" >> }

----------------------------------------------------------------------------
(* The state machine                                                       *)

NoTraversal(value) ==
    /\ pc' = "idle" /\ cur' = value /\ remaining' = 0
    /\ steps' = 0 /\ tests' = 0 /\ calls' = 0 /\ depth' = 0

\* the state once the module is loaded, with one of the given DateFormatter
\* definitions of index2.ts in effect
InitWith(definitions) ==
    /\ impl \in Impls
    /\ systemZone \in SystemZones
    /\ timezone = DEFAULT_TIMEZONE
    /\ now = NowStart
    /\ d = AppDate_invalid
    /\ prev = AppDate_invalid
    /\ prevTz = DEFAULT_TIMEZONE
    /\ lastOp = "load"
    /\ arg = << >>
    /\ tzArg = DEFAULT_TIMEZONE
    /\ numArg = 0
    /\ unitArg = "-"
    /\ thrown = "none"
    /\ lastOkTz = DEFAULT_TIMEZONE
    /\ pc = "idle"
    /\ cur = AppDate_invalid
    /\ remaining = 0 /\ steps = 0 /\ tests = 0 /\ calls = 0 /\ depth = 0
    /\ nops = 0
    /\ self = AppDate_invalid
    /\ isNew = TRUE
    /\ locale = LocaleAtLoad
    /\ formatter \in definitions
    /\ language = "-"
    /\ ret = << >>
    /\ opts = NoOptions
    /\ imports = << >>

\* the two definitions of index2.ts differ in DateFormatter only; the
\* specifications that call no formatter follow the first
Init == InitWith({ "first" })

\* a call that is no formatter and no predicate: what the last one returned
\* is forgotten
ForgetReturn ==
    /\ ret' = << >> /\ opts' = NoOptions
    /\ UNCHANGED << locale, formatter, language, imports >>

\* setTimezone(id)
SetTimezone ==
    \E id \in ZoneIds :
        \E out \in { SetTimezoneOutcome(id) } :
            /\ pc = "idle"
            /\ timezone' = out.timezone
            /\ thrown' = out.thrown
            /\ lastOkTz' = IF out.thrown = "none" THEN id ELSE lastOkTz
            /\ lastOp' = "setTimezone" /\ tzArg' = id /\ prevTz' = timezone
            /\ prev' = d /\ arg' = << >> /\ numArg' = 0 /\ unitArg' = "-"
            /\ NoTraversal(d)
            /\ self' = d
            /\ UNCHANGED << impl, systemZone, now, d, nops, isNew >>
            /\ ForgetReturn

\* the clock advances by one hour
Tick ==
    /\ pc = "idle"
    /\ now < NowStart + MaxTicks
    /\ now' = now + 1
    /\ lastOp' = "tick" /\ thrown' = "none" /\ prevTz' = timezone
    /\ prev' = d /\ arg' = << >> /\ numArg' = 0 /\ unitArg' = "-"
    /\ NoTraversal(d)
    /\ self' = d
    /\ UNCHANGED << impl, systemZone, timezone, d, tzArg, lastOkTz, nops, isNew >>
    /\ ForgetReturn

\* a static constructor op called with the string a has the outcome out.
\* A run constructs one value and then operates on it: what a constructor
\* returns depends on the timezone setting and the clock only, never on the
\* values made before.
Construct(op, a, out) ==
    /\ pc = "idle"
    /\ nops = 0
    /\ lastOp' = op /\ arg' = a /\ thrown' = out.thrown
    /\ d' = IF out.thrown = "none" THEN out.val ELSE d
    /\ prev' = d' /\ prevTz' = timezone /\ numArg' = 0 /\ unitArg' = "-"
    /\ nops' = 1
    /\ NoTraversal(d')
    /\ self' = d' /\ isNew' = TRUE
    /\ UNCHANGED << impl, systemZone, timezone, now, tzArg, lastOkTz >>
    /\ UNCHANGED queryVars

Invalid == Construct("invalid", << >>, Ret(AppDate_invalid))

Now == Construct("now", << >>, Ret(AppDate_now))

FromDateString ==
    /\ nops = 0
    /\ \E date \in DateInputs :
           \E out \in { AppDate_fromDateString(date) } : Construct("fromDateString", date, out)

FromLocalTime ==
    /\ nops = 0
    /\ \E time \in LocalTimeInputs :
           \E out \in { AppDate_fromLocalTime(time) } : Construct("fromLocalTime", time, out)

FromUtcString ==
    /\ nops = 0
    /\ \E date \in UtcStringInputs :
           \E out \in { AppDate_fromUtcString(date) } : Construct("fromUtcString", date, out)

FromUtcTime ==
    /\ nops = 0
    /\ \E time \in UtcTimeInputs :
           \E out \in { AppDate_fromUtcTime(time) } : Construct("fromUtcTime", time, out)

\* an instance operation op(value, unit) on the held AppDate returns result
Apply(op, value, unit, result) ==
    /\ pc = "idle"
    /\ nops >= 1 /\ nops <= MaxOps
    /\ lastOp' = op /\ numArg' = value /\ unitArg' = unit
    /\ prev' = d /\ d' = result /\ thrown' = "none"
    /\ prevTz' = timezone /\ arg' = << >> /\ nops' = nops + 1
    /\ NoTraversal(result)
    /\ self' = ReceiverAfter(d, result) /\ isNew' = TRUE
    /\ UNCHANGED << impl, systemZone, timezone, now, tzArg, lastOkTz >>
    /\ ForgetReturn

Add ==
    \E value \in AddValues, unit \in AddUnits :
        Apply("add", value, unit, AppDate_add(d, value, unit))

Subtract ==
    \E value \in AddValues, unit \in AddUnits :
        Apply("subtract", value, unit, AppDate_subtract(d, value, unit))

StartOf == \E unit \in OfUnits : Apply("startOf", 0, unit, AppDate_startOf(d, unit))

EndOf == \E unit \in OfUnits : Apply("endOf", 0, unit, AppDate_endOf(d, unit))

\* tomorrow() is a method of the legacy class only
Tomorrow == impl = "legacy" /\ Apply("tomorrow", 1, "day", AppDate_tomorrow(d))

\* the one-day step of a traversal: forward, or backward for previousWorkingDay
OneDay(x) ==
    IF pc = "previousWorkingDay" THEN AppDate_subtract(x, 1, "day")
    ELSE AppDate_add(x, 1, "day")

\* nextWorkingDay() / previousWorkingDay() is entered: the first one-day step
BeginTraversal(op, first) ==
    /\ pc = "idle"
    /\ nops >= 1 /\ nops <= MaxOps
    /\ pc' = op /\ lastOp' = op
    /\ prev' = d /\ cur' = first
    /\ steps' = 1 /\ tests' = 0 /\ calls' = 0 /\ depth' = 1 /\ remaining' = 0
    /\ numArg' = 0 /\ unitArg' = "-" /\ arg' = << >> /\ thrown' = "none"
    /\ prevTz' = timezone /\ nops' = nops + 1
    /\ self' = ReceiverAfter(d, first) /\ isNew' = TRUE
    /\ UNCHANGED << impl, systemZone, timezone, now, d, tzArg, lastOkTz >>
    /\ ForgetReturn

NextWorkingDay == BeginTraversal("nextWorkingDay", AppDate_add(d, 1, "day"))

PreviousWorkingDay ==
    BeginTraversal("previousWorkingDay", AppDate_subtract(d, 1, "day"))

\* the weekday test fails: one more one-day step (index2: the while loop;
\* legacy: a nested call)
TraversalStep ==
    /\ pc \in { "nextWorkingDay", "previousWorkingDay" }
    /\ ~IsWorkingDay(cur)
    /\ steps < MaxSteps
    /\ cur' = OneDay(cur)
    /\ steps' = steps + 1 /\ tests' = tests + 1
    /\ depth' = IF impl = "legacy" THEN depth + 1 ELSE depth
    /\ UNCHANGED << impl, systemZone, timezone, now, d, prev, prevTz, lastOp,
                    arg, tzArg, numArg, unitArg, thrown, lastOkTz, pc,
                    remaining, calls, nops, self, isNew >>
    /\ UNCHANGED queryVars

\* the weekday test holds: the traversal returns the candidate
TraversalReturn ==
    /\ pc \in { "nextWorkingDay", "previousWorkingDay" }
    /\ IsWorkingDay(cur)
    /\ d' = cur /\ pc' = "idle" /\ tests' = tests + 1
    /\ UNCHANGED << impl, systemZone, timezone, now, prev, prevTz, lastOp, arg,
                    tzArg, numArg, unitArg, thrown, lastOkTz, cur, remaining,
                    steps, calls, depth, nops, self, isNew >>
    /\ UNCHANGED queryVars

\* addWorkingDays(days) is entered; days2 is twice days
AddWorkingDays ==
    \E days2 \in Days2Inputs :
        /\ pc = "idle"
        /\ nops >= 1 /\ nops <= MaxOps
        /\ lastOp' = "addWorkingDays" /\ numArg' = days2
        /\ prev' = d /\ tests' = 0 /\ calls' = 0
        /\ IF ReturnsReceiver(days2)
           THEN /\ pc' = "idle" /\ cur' = d /\ remaining' = 0
                /\ steps' = 0 /\ depth' = 0
                /\ self' = d /\ isNew' = FALSE
           ELSE /\ pc' = "addWorkingDays" /\ cur' = AppDate_add(d, 1, "day")
                /\ remaining' = days2 /\ steps' = 1 /\ depth' = 1
                /\ self' = ReceiverAfter(d, cur') /\ isNew' = TRUE
        /\ unitArg' = "-" /\ arg' = << >> /\ thrown' = "none"
        /\ prevTz' = timezone /\ nops' = nops + 1
        /\ UNCHANGED << impl, systemZone, timezone, now, d, tzArg, lastOkTz >>
        /\ ForgetReturn

\* inside addWorkingDays: the running nextWorkingDay steps once more
AddWorkingDaysStep ==
    /\ pc = "addWorkingDays"
    /\ ~IsWorkingDay(cur)
    /\ steps < MaxSteps
    /\ cur' = AppDate_add(cur, 1, "day")
    /\ steps' = steps + 1 /\ tests' = tests + 1
    /\ depth' = IF impl = "legacy" THEN depth + 1 ELSE depth
    /\ UNCHANGED << impl, systemZone, timezone, now, d, prev, prevTz, lastOp,
                    arg, tzArg, numArg, unitArg, thrown, lastOkTz, pc,
                    remaining, calls, nops, self, isNew >>
    /\ UNCHANGED queryVars

\* inside addWorkingDays: the running nextWorkingDay returns cur, and
\* addWorkingDays(days - 1) is called on it
AddWorkingDaysNext ==
    /\ pc = "addWorkingDays"
    /\ IsWorkingDay(cur)
    /\ calls' = calls + 1 /\ tests' = tests + 1
    /\ remaining' = remaining - 2
    /\ IF ReturnsReceiver(remaining - 2)
       THEN /\ pc' = "idle" /\ d' = cur /\ cur' = cur
            /\ steps' = steps /\ depth' = depth
       ELSE /\ pc' = pc /\ d' = d /\ cur' = AppDate_add(cur, 1, "day")
            /\ steps' = 1 /\ depth' = depth + 1
    /\ UNCHANGED << impl, systemZone, timezone, now, prev, prevTz, lastOp, arg,
                    tzArg, numArg, unitArg, thrown, lastOkTz, nops, self, isNew >>
    /\ UNCHANGED queryVars

\* legacy: the nested calls on an invalid candidate never return (an invalid
\* day stays invalid), and an engine without tail calls runs out of stack;
\* an engine with tail calls, like the loop of index2, spins forever instead
StackOverflow ==
    /\ impl = "legacy"
    /\ pc # "idle"
    /\ ~IsValid(cur)
    /\ steps = MaxSteps
    /\ pc' = "idle"
    /\ thrown' = "RangeError: Maximum call stack size exceeded"
    /\ UNCHANGED << impl, systemZone, timezone, now, d, prev, prevTz, lastOp,
                    arg, tzArg, numArg, unitArg, lastOkTz, cur, remaining,
                    steps, tests, calls, depth, nops, self, isNew >>
    /\ UNCHANGED queryVars

Next ==
    \/ SetTimezone \/ Tick
    \/ Invalid \/ Now
    \/ FromDateString \/ FromLocalTime \/ FromUtcString \/ FromUtcTime
    \/ Add \/ Subtract \/ StartOf \/ EndOf \/ Tomorrow
    \/ NextWorkingDay \/ PreviousWorkingDay \/ TraversalStep \/ TraversalReturn
    \/ AddWorkingDays \/ AddWorkingDaysStep \/ AddWorkingDaysNext
    \/ StackOverflow

Spec == Init /\ [][Next]_vars

----------------------------------------------------------------------------
(* Formatting: the language switch and the formatters on a held value      *)

\* await setAppDateLanguage(lang)
SetAppDateLanguage ==
    \E lang \in Languages :
        /\ pc = "idle"
        /\ locale' = LocaleFor(lang) /\ language' = lang
        /\ lastOp' = "setAppDateLanguage" /\ arg' = << lang >>
        /\ thrown' = "none" /\ prev' = d /\ self' = d /\ prevTz' = timezone
        /\ numArg' = 0 /\ unitArg' = "-"
        /\ ret' = << >> /\ opts' = NoOptions
        /\ NoTraversal(d)
        /\ UNCHANGED << impl, systemZone, timezone, now, d, tzArg, lastOkTz,
                        nops, isNew, formatter, imports >>

\* a formatter or a predicate op, called on the held value with the options
\* o and the argument a, returns result: the value, the settings and the
\* clock stay as they are
Query(op, o, a, result) ==
    /\ pc = "idle"
    /\ nops >= 1
    /\ lastOp' = op /\ opts' = o /\ arg' = a /\ ret' = result
    /\ thrown' = "none" /\ prev' = d /\ self' = d /\ prevTz' = timezone
    /\ numArg' = 0 /\ unitArg' = "-"
    /\ UNCHANGED << impl, systemZone, timezone, now, d, tzArg, lastOkTz, nops,
                    isNew, locale, formatter, language, pc, cur, remaining,
                    steps, tests, calls, depth, imports >>

\* the formatters that take no argument
FormatPlain ==
    \/ Query("toLocalTime", NoOptions, << >>, ToLocalTime(d))
    \/ Query("toUtcTime", NoOptions, << >>, ToUtcTime(d))
    \/ Query("toDateString", NoOptions, << >>, ToDateString(d))

\* the formatters that take { includeDayOfWeek }
FormatWithOptions ==
    \E o \in OptionInputs :
        \/ Query("toLocalizedDateString", o, << >>, ToLocalizedDateString(d, o))
        \/ Query("formatShort", o, << >>, FormatShort(d, o))
        \/ Query("formatDateTime", o, << >>, FormatDateTime(d, o))

\* format(template)
FormatTemplate ==
    \E template \in TemplateInputs :
        Query("format", NoOptions, template, Format(d, template))

NextFormat ==
    \/ SetAppDateLanguage
    \/ Invalid \/ Now \/ FromDateString \/ FromUtcString
    \/ FormatPlain \/ FormatWithOptions \/ FormatTemplate

SpecFormat == InitWith({ "first", "second" }) /\ [][NextFormat]_vars

\* the operations that return a value derived from the receiver, on values
\* of the constructors invalid, now and fromDateString
NextFrame ==
    \/ Invalid \/ Now \/ FromDateString
    \/ Add \/ Subtract \/ StartOf \/ EndOf \/ Tomorrow
    \/ NextWorkingDay \/ PreviousWorkingDay \/ TraversalStep \/ TraversalReturn
    \/ AddWorkingDays \/ AddWorkingDaysStep \/ AddWorkingDaysNext
    \/ StackOverflow

SpecFrame == Init /\ [][NextFrame]_vars

----------------------------------------------------------------------------
(* Predicates on a held value                                              *)

\* a boolean as a call returns it
Bool(b) == IF b THEN << "true" >> ELSE << "false" >>

\* the bounds given to isBetween: NoArgument for one left out
Bounds(from, to) == [from |-> from, to |-> to]

\* fromDateString on the two ends of the supported range and their
\* neighbours
FromRangeDate ==
    /\ nops = 0
    /\ \E date \in RangeDateInputs :
           \E out \in { AppDate_fromDateString(date) } : Construct("fromDateString", date, out)

\* isBetween(from, to) of the legacy class, unit and inclusivity left out;
\* the bounds are made by fromDateString for the call
IsBetween ==
    /\ impl = "legacy"
    /\ \E from \in BoundInputs, to \in BoundInputs :
           Query("isBetween", Bounds(from, to), << >>,
                 Bool(AppDate_isBetween(d, from, to, NoArgument)))

\* isWorkingDay()
IsWorkingDayQuery == Query("isWorkingDay", NoOptions, << >>, Bool(IsWorkingDay(d)))

NextQuery ==
    \/ SetTimezone \/ Tick
    \/ Invalid \/ Now
    \/ FromDateString \/ FromLocalTime \/ FromUtcString \/ FromUtcTime
    \/ FromRangeDate
    \/ IsBetween \/ IsWorkingDayQuery

SpecQuery == Init /\ [][NextQuery]_vars

----------------------------------------------------------------------------
(* Comparisons of a held value with another value                          *)

\* the value a comparison is given: AppDate.invalid(), AppDate.now(), or
\* fromDateString of the Wednesday or the Saturday of the reference week
OtherInputs ==
    { << "invalid" >>, << "now" >>, DateStr(2024, 1, 10), DateStr(2024, 1, 13) }

Other(a) ==
    IF a = << "invalid" >> THEN AppDate_invalid
    ELSE IF a = << "now" >> THEN AppDate_now
    ELSE AppDate_fromDateString(a).val

\* isBefore(other); index2 has this comparison only
IsBefore ==
    \E a \in OtherInputs :
        Query("isBefore", NoOptions, a, Bool(AppDate_isBefore(d, Other(a))))

\* isSame(other) and isAfter(other) of the legacy class
IsSameOrAfter ==
    /\ impl = "legacy"
    /\ \E a \in OtherInputs :
           \/ Query("isSame", NoOptions, a, Bool(AppDate_isSame(d, Other(a))))
           \/ Query("isAfter", NoOptions, a, Bool(AppDate_isAfter(d, Other(a))))

\* isToday() of the legacy class
IsToday ==
    /\ impl = "legacy"
    /\ Query("isToday", NoOptions, << >>, Bool(AppDate_isToday(d)))

\* bounds of isBetween made from a string that is no date, and two days
UncheckedBoundInputs == { << >>, DateStr(2024, 1, 8), DateStr(2024, 1, 20) }

\* isBetween(from, to) of the legacy class, a bound possibly invalid
IsBetweenUnchecked ==
    /\ impl = "legacy"
    /\ \E from \in UncheckedBoundInputs, to \in UncheckedBoundInputs :
           Query("isBetween", Bounds(from, to), << >>,
                 Bool(AppDate_isBetween(d, from, to, NoArgument)))

NextCompare ==
    \/ SetTimezone \/ Tick
    \/ Invalid \/ Now \/ FromDateString
    \/ IsBefore \/ IsSameOrAfter \/ IsToday \/ IsBetweenUnchecked

SpecCompare == Init /\ [][NextCompare]_vars

----------------------------------------------------------------------------
(* Language switches that overlap: setAppDateLanguage called again before  *)
(* the promise of an earlier call has resolved                             *)

\* setAppDateLanguage(lang) is called and not awaited: the call runs up to
\* its await import(...) and hands back a pending promise
CallSetAppDateLanguage ==
    \E lang \in Languages :
        /\ pc = "idle"
        /\ Len(imports) < MaxCalls
        /\ imports' = Append(imports, [lang |-> lang, done |-> FALSE])
        /\ lastOp' = "setAppDateLanguage" /\ arg' = << lang >>
        /\ UNCHANGED << impl, systemZone, timezone, now, d, prev, prevTz,
                        tzArg, numArg, unitArg, thrown, lastOkTz, pc, cur,
                        remaining, steps, tests, calls, depth, nops, self,
                        isNew, locale, formatter, language, ret, opts >>

\* the locale import of the i-th call completes: the call resumes, gives the
\* locale to dayjs.locale and its promise resolves.  The imports are loads
\* of separate modules and complete in any order.
ImportCompletes ==
    \E i \in 1 .. Len(imports) :
        /\ ~imports[i].done
        /\ imports' = [imports EXCEPT ![i].done = TRUE]
        /\ locale' = LocaleFor(imports[i].lang)
        /\ language' = imports[i].lang
        /\ lastOp' = "import" /\ arg' = << imports[i].lang >>
        /\ UNCHANGED << impl, systemZone, timezone, now, d, prev, prevTz,
                        tzArg, numArg, unitArg, thrown, lastOkTz, pc, cur,
                        remaining, steps, tests, calls, depth, nops, self,
                        isNew, formatter, ret, opts >>

NextLanguage == CallSetAppDateLanguage \/ ImportCompletes

SpecLanguage == Init /\ [][NextLanguage]_vars

----------------------------------------------------------------------------
(* Relative time and the epoch round trip on a held value                  *)

\* add(k, 'day') and subtract(k, 'day') with the distances of the tests, on
\* the value a constructor returned
ShiftDays ==
    /\ nops = 1
    /\ \E k \in RelativeDayInputs :
           \/ Apply("add", k, "day", AppDate_add(d, k, "day"))
           \/ Apply("subtract", k, "day", AppDate_subtract(d, k, "day"))

\* toRelative(opts)
RelativeQuery ==
    \E o \in RelativeOptionInputs :
        Query("toRelative", o, << >>, ToRelative(d, o))

\* AppDate.fromEpochMillis(x.toEpochMillis()).toDateString()
EpochRoundTrip ==
    Query("fromEpochMillis", NoOptions, << >>,
          ToDateString(AppDate_fromEpochMillis(AppDate_toEpochMillis(d))))

NextRelative ==
    \/ Tick
    \/ Invalid \/ Now \/ FromDateString \/ FromUtcString
    \/ Add \/ Subtract \/ ShiftDays
    \/ RelativeQuery \/ EpochRoundTrip

SpecRelative == Init /\ [][NextRelative]_vars

\* DateParser alone: fromDateString over every input shape, under every
\* timezone setting and clock value
ParseDateString ==
    /\ nops = 0
    /\ \E date \in ParseInputs :
           \E out \in { AppDate_fromDateString(date) } : Construct("fromDateString", date, out)

NextParse == SetTimezone \/ Tick \/ ParseDateString

SpecParse == Init /\ [][NextParse]_vars

----------------------------------------------------------------------------
(* The claims                                                              *)

Constructors ==
    { "invalid", "now", "fromDateString", "fromLocalTime", "fromUtcString",
      "fromUtcTime" }

ParsingConstructors ==
    { "fromDateString", "fromLocalTime", "fromUtcString", "fromUtcTime" }

DerivingOps == { "add", "subtract", "startOf", "endOf" }

WorkingDayOps == { "nextWorkingDay", "previousWorkingDay", "addWorkingDays" }

\* s is NNNN-NN-NN with a month 01..12 and a day that exists in that month
\* of that year
IsCalendarDate(s) ==
    /\ Len(s) = 10
    /\ \A i \in { 1, 2, 3, 4, 6, 7, 9, 10 } : IsDigit(s[i])
    /\ s[5] = "-" /\ s[8] = "-"
    /\ NumVal(SubSeq(s, 6, 7)) \in 1 .. 12
    /\ NumVal(SubSeq(s, 9, 10)) \in
          1 .. DaysInMonth(NumVal(SubSeq(s, 1, 4)), NumVal(SubSeq(s, 6, 7)))

\* C1: fromDateString(s) is valid if and only if s is exactly a calendar date
\* written YYYY-MM-DD; every other string gives an invalid value.
C1_ValidIffCalendarDate ==
    lastOp = "fromDateString" => (IsValid(d) <=> IsCalendarDate(arg))

\* C2: add, subtract, startOf and endOf applied to an invalid value return an
\* invalid value, so no sequence of them leads from an invalid value to a
\* valid one.
C2_Poisoning ==
    (lastOp \in DerivingOps /\ ~IsValid(prev)) => ~IsValid(d)

C2_Witness ==
    /\ lastOp \in DerivingOps /\ nops = MaxOps + 1
    /\ ~IsValid(prev) /\ ~IsValid(d)

\* the call is one the claim C3 speaks of: a working-day operation, with a
\* positive whole number of days for addWorkingDays
PositiveWhole(days2) == days2 > 0 /\ days2 % 2 = 0

\* C3: on an invalid value nextWorkingDay, previousWorkingDay and
\* addWorkingDays(n), n a positive integer, evaluate no weekday test, raise
\* nothing and return an invalid value.
C3_InvalidSkipsWeekdayTest ==
    ( /\ lastOp \in WorkingDayOps
      /\ ~IsValid(prev)
      /\ lastOp = "addWorkingDays" => PositiveWhole(numArg) )
    => ( /\ tests = 0
         /\ thrown = "none"
         /\ pc = "idle" => ~IsValid(d) )

\* C4: nextWorkingDay on a valid value returns, within the step bound and
\* without raising, and what it returns is a working day.
C4_NextWorkingDayReturnsWorkingDay ==
    (lastOp = "nextWorkingDay" /\ IsValid(prev))
    => IF pc = "idle" THEN thrown = "none" /\ IsWorkingDay(d)
       ELSE IsWorkingDay(cur) \/ steps < MaxSteps

\* nextWorkingDay() applied n times, starting from x
RECURSIVE NextWorkingDayTimes(_, _)
NextWorkingDayTimes(x, n) ==
    IF n = 0 THEN x
    ELSE NextWorkingDayTimes(WorkingDaysCalculator_nextWorkingDay(x), n - 1)

\* C5: for a valid value and a positive integer n, what addWorkingDays(n)
\* returns is nextWorkingDay() applied n times to the receiver.
C5_AddWorkingDaysIsNTimesNext ==
    ( /\ lastOp = "addWorkingDays" /\ pc = "idle" /\ thrown = "none"
      /\ IsValid(prev) /\ PositiveWhole(numArg) )
    => d = NextWorkingDayTimes(prev, numArg \div 2)

C5_Witness ==
    /\ lastOp = "addWorkingDays" /\ pc = "idle" /\ thrown = "none"
    /\ IsValid(prev) /\ numArg = 4 /\ calls = 2
    /\ IsWorkingDay(d) /\ d # prev

\* C6: addWorkingDays(n) with n zero, negative or not an integer returns the
\* receiver itself, at once and without an error.
C6_NonPositiveOrFractionalIsIdentity ==
    (lastOp = "addWorkingDays" /\ (numArg <= 0 \/ numArg % 2 = 1))
    => (pc = "idle" /\ d = prev /\ thrown = "none" /\ tests = 0)

C6_Witness ==
    /\ lastOp = "addWorkingDays" /\ numArg = 3
    /\ IsValid(prev) /\ d = prev /\ pc = "idle"

\* C7: setTimezone(id) with an id the engine cannot resolve raises an error
\* and leaves the current timezone as it was; with a resolvable id it makes
\* id the current timezone.
C7_SetTimezoneValidates ==
    lastOp = "setTimezone"
    => IF Resolvable(tzArg) THEN thrown = "none" /\ timezone = tzArg
       ELSE thrown # "none" /\ timezone = prevTz

\* C8: the current timezone is Europe/Zurich at load and is always the
\* argument of the most recent setTimezone that returned; a value just
\* constructed reports that timezone.
C8_ConstructedReportsLastSetTimezone ==
    /\ lastOp = "load" => GetTimezone = "Europe/Zurich"
    /\ GetTimezone = lastOkTz
    /\ lastOp \in Constructors => TimezoneOf(d) = lastOkTz

C8_Witness ==
    /\ lastOp = "fromDateString" /\ IsValid(d)
    /\ tzArg = "Mars/Phobos" /\ lastOkTz = "Asia/Tokyo"
    /\ TimezoneOf(d) = "Asia/Tokyo"

\* the engine could not parse the argument of the last parsing constructor
ParseFailed ==
    IF lastOp = "fromDateString" THEN ~StrictDateValid(arg, now, SysOff)
    ELSE IF lastOp = "fromLocalTime"
    THEN ~DayjsUtcFormat(arg, LOCAL_TIME_FORMAT).valid
    ELSE IF lastOp = "fromUtcString" THEN ~DayjsUtc(arg).valid
    ELSE ~DayjsUtcFormat(arg, UTC_TIME_FORMAT).valid

\* C9: no parsing constructor raises: each returns a value, an invalid one
\* whenever the parse failed; setTimezone is the only operation that raises.
C9_OnlySetTimezoneRaises ==
    /\ lastOp \in ParsingConstructors
          => (thrown = "none" /\ (ParseFailed => ~IsValid(d)))
    /\ thrown # "none" => lastOp = "setTimezone"

\* C10: every invalid value wraps the one INVALID_DATE instant.
C10_OneInvalidInstant ==
    ~IsValid(d) => d.dayjsDate = INVALID_DATE

MutatorOps ==
    { "add", "subtract", "startOf", "endOf", "tomorrow", "nextWorkingDay",
      "previousWorkingDay", "addWorkingDays" }

\* the formatted outputs of a value, the options left out: UTC and local
\* time, short and localized date, and every field of the default template
FormattedOutputs(x) ==
    << ToUtcTime(x), FormatShort(x, NoOptions), FormatDateTime(x, NoOptions),
       Format(x, << "YYYY", "-", "MM", "-", "DD", "T", "HH", ":", "mm", ":",
                    "ss", "Z", "[Z]" >>) >>

\* the receiver of the last call (prev: as it was before the call, self: as
\* it is after it) has the same instant, validity and formatted outputs
ReceiverUnmodified ==
    /\ self = prev
    /\ IsValid(self) = IsValid(prev)
    /\ FormattedOutputs(self) = FormattedOutputs(prev)

\* the last call has returned
Returned == pc = "idle" /\ thrown = "none"

FromBound == AppDate_fromDateString(opts.from).val

ToBound == AppDate_fromDateString(opts.to).val

\* C17: isBetween(from, to) without an inclusivity argument is true for a
\* value equal to from and false for a value equal to to (from and to valid
\* and different); with both bounds left out it tells whether the value lies
\* between minDate(), which is 1900-01-01, and maxDate(), which is
\* 2200-12-31, the first included and the second excluded.
C17_IsBetweenDefault ==
    (lastOp = "isBetween" /\ IsValid(d))
    => /\ ( /\ opts.from # NoArgument /\ opts.to # NoArgument
            /\ IsValid(FromBound) /\ IsValid(ToBound)
            /\ FromBound.dayjsDate.t # ToBound.dayjsDate.t )
          => /\ d.dayjsDate.t = FromBound.dayjsDate.t => ret = Bool(TRUE)
             /\ d.dayjsDate.t = ToBound.dayjsDate.t => ret = Bool(FALSE)
       /\ (opts.from = NoArgument /\ opts.to = NoArgument)
          => /\ IsValid(AppDate_minDate) /\ IsValid(AppDate_maxDate)
             /\ ToDateString(AppDate_minDate) = DateStr(1900, 1, 1)
             /\ ToDateString(AppDate_maxDate) = DateStr(2200, 12, 31)
             /\ ret = Bool(/\ AppDate_minDate.dayjsDate.t <= d.dayjsDate.t
                           /\ d.dayjsDate.t < AppDate_maxDate.dayjsDate.t)

\* the weekday, Sunday = 0, of a valid value in the timezone it reports
WeekdayInOwnTimezone(x) ==
    ((x.dayjsDate.t + ZoneOffset(TimezoneOf(x))) \div 24 + 4) % 7

\* C18: isWorkingDay() is true exactly when the weekday of the instant in the
\* value's own timezone is Monday to Friday, whatever constructor made the
\* value; an invalid value is no working day.
C18_IsWorkingDayInOwnTimezone ==
    lastOp = "isWorkingDay"
    => ret = Bool(IsValid(d) /\ WeekdayInOwnTimezone(d) \in 1 .. 5)

\* the distance between the value and now in whole days
WholeDaysFromNow == Abs(d.dayjsDate.t - now) \div 24

\* what toRelative returns when it falls back
FallbackOutput ==
    IF opts.fallback = NoArgument THEN ToLocalizedDateString(d, NoOptions)
    ELSE Format(d, opts.fallback)

\* C14: toRelative(opts) on a valid value returns opts.fallback(self), or
\* self.toLocalizedDateString() when no fallback is given, exactly when the
\* whole-day distance from now is greater than fallbackAfterDays; at a
\* distance equal to it, or with fallbackAfterDays unspecified, it does not.
C14_FallbackBeyondThreshold ==
    (lastOp = "toRelative" /\ IsValid(d))
    => (ret = FallbackOutput
        <=> (opts.fallbackAfterDays # Unspecified
             /\ WholeDaysFromNow > opts.fallbackAfterDays))

\* twenty days back with fallbackAfterDays 14: the localized date string
C14_Witness ==
    /\ lastOp = "toRelative" /\ IsValid(d)
    /\ opts.fallbackAfterDays = 14 /\ opts.fallback = NoArgument
    /\ now - d.dayjsDate.t = 20 * 24
    /\ ret = ToLocalizedDateString(d, NoOptions)

\* the last toRelative call did not fall back
NoFallbackApplies ==
    opts.fallbackAfterDays = Unspecified
    \/ WholeDaysFromNow <= opts.fallbackAfterDays

\* the magnitude of the distance from now in the unit chosen for it
MagnitudeInUnit == RelativeUnit(Abs(d.dayjsDate.t - now)).magnitude

\* r stands inside the wrapper w and not inside the other one
InWrapper(r, w, other) ==
    /\ w[1] # "" => r[1] = w[1]
    /\ w[2] # "" => r[Len(r)] = w[2]
    /\ (other[1] # "" /\ other[1] # w[1]) => r[1] # other[1]
    /\ (other[2] # "" /\ other[2] # w[2]) => r[Len(r)] # other[2]

\* r holds the digits of n followed by the piece after
HoldsNumber(r, n, after) ==
    \E i \in 1 .. Len(r) :
        /\ i + Len(PadStart(n, 1)) <= Len(r)
        /\ SubSeq(r, i, i + Len(PadStart(n, 1)) - 1) = PadStart(n, 1)
        /\ r[i + Len(PadStart(n, 1))] = after
        /\ i > 1 => ~IsDigit(r[i - 1])

\* C15: when no fallback applies, toRelative on a valid value renders
\* '<cap>+' exactly when the magnitude in the chosen unit is greater than
\* cap, and the exact magnitude otherwise (of two or more: one unit has a
\* phrase without a number); the phrase stands in the past wrapper for a
\* value before now and in the future wrapper for a value after now.
C15_CappedAboveCap ==
    (lastOp = "toRelative" /\ IsValid(d) /\ NoFallbackApplies)
    => /\ (\E i \in 1 .. Len(ret) : ret[i] = "+")
          <=> (opts.cap # Unspecified /\ MagnitudeInUnit > opts.cap)
       /\ (opts.cap # Unspecified /\ MagnitudeInUnit > opts.cap)
          => HoldsNumber(ret, opts.cap, "+")
       /\ ( /\ ~(opts.cap # Unspecified /\ MagnitudeInUnit > opts.cap)
            /\ MagnitudeInUnit >= 2 )
          => \E word \in { RelativeTimeTable(d.dayjsDate.L)[k] :
                             k \in { "hh", "dd", "MM", "yy" } } :
                 HoldsNumber(ret, MagnitudeInUnit, word)
       /\ d.dayjsDate.t < now
          => InWrapper(ret, RelativeTimeTable(d.dayjsDate.L).past,
                       RelativeTimeTable(d.dayjsDate.L).future)
       /\ d.dayjsDate.t > now
          => InWrapper(ret, RelativeTimeTable(d.dayjsDate.L).future,
                       RelativeTimeTable(d.dayjsDate.L).past)

\* fifteen days back with cap 9 under the English locale: '9+ days ago'
C15_Witness ==
    /\ lastOp = "toRelative" /\ IsValid(d) /\ opts.cap = 9
    /\ now - d.dayjsDate.t = 15 * 24
    /\ ret = << "9", "+", " days", " ago" >>

\* C16: for every valid x, AppDate.fromEpochMillis(x.toEpochMillis())
\* .toDateString() equals x.toDateString().
C16_EpochRoundTrip ==
    (lastOp = "fromEpochMillis" /\ IsValid(d)) => ret = ToDateString(d)

FormatterOps ==
    { "toLocalTime", "toUtcTime", "toDateString", "toLocalizedDateString",
      "formatShort", "formatDateTime", "format" }

\* the invalid-date string of the locale that is current
LocalePlaceholder ==
    IF locale \in { "de", "de-ch", "de-at" } THEN << "Ung\\u00FCltiges Datum" >>
    ELSE IF locale \in { "fr", "fr-ch" } THEN << "Date invalide" >>
    ELSE << "Invalid Date" >>

\* C12: on an invalid value toLocalTime(), toUtcTime() and toDateString()
\* return the invalid-date string of the locale current at the time of the
\* call: the German one under a German locale, the French one under a French
\* locale, 'Invalid Date' under any other.
C12_InvalidLocalizedPlaceholder ==
    (lastOp \in { "toLocalTime", "toUtcTime", "toDateString" } /\ ~IsValid(d))
    => ret = LocalePlaceholder

\* C13: every formatter called on an invalid value returns, without raising,
\* exactly the string toDateString() returns on it.
C13_InvalidSamePlaceholder ==
    (lastOp \in FormatterOps /\ ~IsValid(d))
    => (thrown = "none" /\ ret = ToDateString(d))

\* dayjs/locale/sr: the weekday names the tests expect under 'sr'
Locale_sr ==
    [weekdays |-> << "Nedelja", "Ponedeljak", "Utorak", "Sreda",
                     "\\u010Cetvrtak", "Petak", "Subota" >>,
     weekdaysMin |-> << "ne", "po", "ut", "sr", "\\u010De", "pe", "su" >>]

\* the weekday of a valid value, Sunday = 0, in the value's own offset
WeekdayOf(x) == (LocalDay(x.dayjsDate) + 4) % 7

\* C19: once setAppDateLanguage('sr') or setAppDateLanguage('sr-ije') has
\* resolved, format('dddd') and format('dd') of a value made under it give the
\* full and the minimal weekday name of that locale's table, for every day
\* of the reference week 2024-01-08 .. 2024-01-14.
C19_SerbianWeekdayNames ==
    ( /\ lastOp = "format" /\ arg \in { << "dddd" >>, << "dd" >> }
      /\ language \in { "sr", "sr-ije" }
      /\ IsValid(d) /\ d.dayjsDate.L = locale )
    => ret = << (IF language = "sr" THEN Locale_sr ELSE Locale_sr_ije)
                   [IF arg = << "dddd" >> THEN "weekdays" ELSE "weekdaysMin"]
                   [WeekdayOf(d) + 1] >>

\* the calls C20 speaks of: no options at all, or options that say
\* includeDayOfWeek.  (Options without the field, {}, are resolved differently
\* by the two modules: index2 takes them as they are, legacy fills in the
\* default.)
SaysOrOmits(o) == ~o.given \/ o.includeDayOfWeek # "undefined"

\* includeDayOfWeek as it is in effect for the formatter op called with the
\* options o: what o says, else the default of op
InEffect(op, o) ==
    IF o.includeDayOfWeek = "undefined" THEN op # "toLocalizedDateString"
    ELSE o.includeDayOfWeek = "true"

\* the minimal weekday name of the value's locale, then ', '
WeekdayPrefix(x) ==
    << LocaleTable(x.dayjsDate.L).weekdaysMin[WeekdayOf(x) + 1], ", " >>

C21_FromUtcStringOmittedIsNow ==
    (lastOp = "fromUtcString" /\ arg = NoArgument /\ thrown = "none")
    => (IsValid(d) /\ ToDateString(d) = ToDateString(AppDate_now))

\* the weekday, Sunday = 0, of the calendar day with the day number n
WeekdayOfDay(n) == (n + 4) % 7

\* the calendar day of the receiver and of the result of the last call, each
\* in its own offset
ReceiverDay == LocalDay(prev.dayjsDate)

ResultDay == LocalDay(d.dayjsDate)

\* C22: nextWorkingDay on a valid value returns the earliest working day
\* strictly after the receiver's calendar day: the call returns, the result
\* is later than the receiver, is a working day, and no calendar day between
\* the two is a working day.
C22_NextWorkingDayIsEarliest ==
    (lastOp = "nextWorkingDay" /\ IsValid(prev) /\ pc = "idle")
    => /\ thrown = "none" /\ IsValid(d)
       /\ d.dayjsDate.t > prev.dayjsDate.t
       /\ ResultDay > ReceiverDay
       /\ IsWorkingDay(d)
       /\ \A n \in (ReceiverDay + 1) .. (ResultDay - 1) :
              WeekdayOfDay(n) \notin WORKING_DAYS

\* C23: previousWorkingDay on a valid value returns, and what it returns is
\* the latest working day strictly before the receiver's calendar day: it is
\* earlier than the receiver, is a working day, and no calendar day between
\* the two is a working day.
C23_PreviousWorkingDayIsLatest ==
    (lastOp = "previousWorkingDay" /\ IsValid(prev))
    => IF pc = "idle"
       THEN /\ thrown = "none" /\ IsValid(d)
            /\ d.dayjsDate.t < prev.dayjsDate.t
            /\ ResultDay < ReceiverDay
            /\ IsWorkingDay(d)
            /\ \A n \in (ResultDay + 1) .. (ReceiverDay - 1) :
                   WeekdayOfDay(n) \notin WORKING_DAYS
       ELSE IsWorkingDay(cur) \/ steps < MaxSteps

\* the one-day steps nextWorkingDay takes from a receiver on the weekday w:
\* three from Friday, two from Saturday, one from the other days
StepsFromWeekday(w) == IF w = 5 THEN 3 ELSE IF w = 6 THEN 2 ELSE 1

\* C24: nextWorkingDay on a valid value returns after at most two repeated
\* steps beyond the first one-day advance, its result lies one to three
\* calendar days after the receiver, and the number of steps is determined
\* by the receiver's weekday alone.
C24_NextWorkingDayStepBound ==
    (lastOp = "nextWorkingDay" /\ IsValid(prev))
    => /\ steps <= 3
       /\ pc = "idle"
          => /\ thrown = "none"
             /\ ResultDay - ReceiverDay \in 1 .. 3
             /\ steps = StepsFromWeekday(WeekdayOfDay(ReceiverDay))

\* C25: one top-level addWorkingDays(n) never has more than one nested
\* addWorkingDays call open, whatever n is: the nesting depth is bounded by
\* a constant that does not grow with n
C25_AddWorkingDaysDepthBounded ==
    lastOp = "addWorkingDays" => calls <= 1

\* C27: a successful setTimezone changes neither the timezone that the value
\* constructed before it reports nor any formatted output of that value
C27_TimezoneFixedAtConstruction ==
    [][(nops >= 1 /\ lastOp' = "setTimezone" /\ thrown' = "none")
       => /\ TimezoneOf(d)' = TimezoneOf(d)
          /\ FormattedOutputs(d)' = FormattedOutputs(d)
          /\ ToLocalTime(d)' = ToLocalTime(d)]_vars

ArithmeticOps == { "add", "subtract", "startOf", "endOf" }

\* C28: add, subtract, startOf and endOf return a value whose timezone is
\* the receiver's timezone, whatever setTimezone did since the receiver was
\* constructed
C28_DerivedKeepsTimezone ==
    (lastOp \in ArithmeticOps /\ thrown = "none")
    => /\ TimezoneOf(d) = TimezoneOf(prev)
       /\ (IsValid(prev) /\ IsValid(d)) => d.dayjsDate.off = prev.dayjsDate.off

\* the calendar day of the instant t in the configured timezone
DayInTimezone(t) == (t + ZoneOffset(timezone)) \div 24

\* C26: isToday() is true exactly for a value on the calendar day of the
\* current instant in the configured timezone; AppDate.now().isToday() is
\* true under every configured timezone
C26_IsTodayIsCalendarDayOfNow ==
    (lastOp = "isToday" /\ IsValid(d) /\ Resolvable(timezone))
    => ret = Bool(DayInTimezone(d.dayjsDate.t) = DayInTimezone(now))

\* C30: isBefore, isAfter, isSame, isBetween and isToday return false when
\* the receiver or a compared argument is invalid
C30_InvalidIsNeverOrdered ==
    /\ (lastOp \in { "isBefore", "isAfter", "isSame" }
        /\ (~IsValid(d) \/ ~IsValid(Other(arg))))
       => ret = Bool(FALSE)
    /\ (lastOp = "isToday" /\ ~IsValid(d)) => ret = Bool(FALSE)
    /\ (lastOp = "isBetween"
        /\ (~IsValid(d) \/ ~IsValid(FromBound) \/ ~IsValid(ToBound)))
       => ret = Bool(FALSE)

\* every setAppDateLanguage call made has resolved
AllResolved == \A i \in 1 .. Len(imports) : imports[i].done

\* C29: when two setAppDateLanguage calls overlap, the locale in effect once
\* both have resolved is that of the call issued last
C29_LastIssuedLanguageWins ==
    (Len(imports) = 2 /\ AllResolved)
    => locale = LocaleFor(imports[2].lang)
====
